---- MODULE Spec2Model ----
(***************************************************************************)
(* A model of gwalk (src/gwalk.py): the status parser RepoStatus.load, the *)
(* classification AssetState.match / RepoStatus.match, the path filters,  *)
(* the action dispatcher RepoHandler.perform and the driver loop of main.  *)
(*                                                                         *)
(* Text is a sequence of one-character strings, so that slicing, the       *)
(* substring test and the rename pattern are computed, not assumed.        *)
(***************************************************************************)
EXTENDS Integers, Sequences, FiniteSets, TLC

VARIABLES
    stdout,     \* the lines the last `git status --porcelain` produced
    status,     \* RepoStatus.status of the repository last loaded
    loadErr,    \* how the last RepoStatus.load ended
    call,       \* the last call of AssetState.match / RepoStatus.match
    pc,         \* main: "start", "walk", "done", "crashed"
    given,      \* the command line as parsed by argparse, and the host
    args,       \* args after main has resolved the black- and whitelist
    walkPos,    \* how many paths RepoWalk has yielded so far
    ignored,    \* main's counter
    matched,    \* main's counter
    success,    \* RepoHandler.success
    failure,    \* RepoHandler.failure
    cwd,        \* the process's working directory
    displayed,  \* the paths RepoStatus.display has printed
    performed,  \* the paths RepoHandler.perform was called for
    last,       \* what happened to the path last yielded by the walk
    fs,         \* the directory tree under the walk's base directory
    walk        \* the last iteration of a RepoWalk, once it has run

vars == <<stdout, status, loadErr, call, pc, given, args, walkPos, ignored,
          matched, success, failure, cwd, displayed, performed, last,
          fs, walk>>

walkVars == <<fs, walk>>

parseVars == <<stdout, status, loadErr, call>>

mainVars == <<pc, given, args, walkPos, ignored, matched, success, failure,
              cwd, displayed, performed, last>>

-----------------------------------------------------------------------------
(* Bounds of the model.                                                    *)

\* the most path tokens of a status line of SpecLoad
MaxTokens == 5

\* the most plain lines before and after that line in one status output
MaxPlainLines == 1

\* the most entries of a repository status of SpecMatch
MaxEntries == 2

\* the number of repositories the walk yields in Spec
NumRepos == 2

\* the most files and directories under the base directory in SpecWalk
MaxNodes == 4

-----------------------------------------------------------------------------
(* Text.                                                                   *)

\* Python's None, for a value that is otherwise a text
None == <<"None">>

Arrow == <<" ", "-", ">", " ">>

Quote == "\""

\* `sub in s` for two texts
Contains(s, sub) ==
    \E i \in 0..(Len(s) - Len(sub)) : SubSeq(s, i + 1, i + Len(sub)) = sub

\* `c in s` for a string c of at most one character: the empty string is a
\* substring of every string
InChars(c, s) == c = "" \/ \E i \in 1..Len(s) : s[i] = c

\* s[0:1], s[1:2]: the character at 0-based offset k, or '' past the end
CharAt(s, k) == IF k + 1 <= Len(s) THEN s[k + 1] ELSE ""

\* s[3:]
From3(s) == SubSeq(s, 4, Len(s))

\* s[1:-2]
Slice1m2(s) == SubSeq(s, 2, Len(s) - 2)

-----------------------------------------------------------------------------
(* re.search(r'^"?(.+?)"? -> "?(.+?)"?$', p): a backtracking match.  A     *)
(* candidate is <<q1, n1, q2, q3, n2, q4>>: whether each optional quote is *)
(* taken and the length of each group.  The engine returns the first      *)
(* candidate in its search order: an optional quote is tried taken first,  *)
(* a lazy group shortest first.                                            *)

IsQuoteAt(p, i) == i >= 1 /\ i <= Len(p) /\ p[i] = Quote

RenameValid(p, q1, n1, q2, q3, n2, q4) ==
    /\ q1 + n1 + q2 + 4 + q3 + n2 + q4 = Len(p)
    /\ q1 = 1 => IsQuoteAt(p, 1)
    /\ q2 = 1 => IsQuoteAt(p, q1 + n1 + 1)
    /\ SubSeq(p, q1 + n1 + q2 + 1, q1 + n1 + q2 + 4) = Arrow
    /\ q3 = 1 => IsQuoteAt(p, q1 + n1 + q2 + 5)
    /\ q4 = 1 => IsQuoteAt(p, Len(p))

\* the second group's length is what the other five leave of the text
RenameCandidates(p) ==
    LET n2(b) == Len(p) - (b[1] + b[2] + b[3] + 4 + b[4] + b[5])
        cs == { b \in (0..1) \X (1..Len(p)) \X (0..1) \X (0..1) \X (0..1) :
                  /\ n2(b) >= 1
                  /\ RenameValid(p, b[1], b[2], b[3], b[4], n2(b), b[5]) }
    IN { <<b[1], b[2], b[3], b[4], n2(b), b[5]>> : b \in cs }

\* the engine's preference between two candidates, component by component
Earlier(c, d) ==
    LET pref(i) == IF i \in {2, 5} THEN c[i] < d[i] ELSE c[i] > d[i]
    IN \E i \in 1..6 : pref(i) /\ \A j \in 1..(i - 1) : c[j] = d[j]

RenameSearch(p) ==
    LET cs == RenameCandidates(p)
    IN IF cs = {} THEN [found |-> FALSE]
       ELSE LET c == CHOOSE c \in cs : \A d \in cs \ {c} : Earlier(c, d)
            IN [found |-> TRUE,
                group1 |-> SubSeq(p, c[1] + 1, c[1] + c[2]),
                group2 |-> SubSeq(p, c[1] + c[2] + c[3] + 4 + c[4] + 1,
                                     c[1] + c[2] + c[3] + 4 + c[4] + c[5])]

-----------------------------------------------------------------------------
(* RepoStatus.AssetState and RepoStatus.load.                              *)

AssetState(x, y, path, orig) == [X |-> x, Y |-> y, PATH |-> path, ORIG_PATH |-> orig]

\* the body of load's loop for one non-empty line: the entry appended, or
\* the exception raised
ParseLine(line) ==
    LET x == CharAt(line, 0)
        y == CharAt(line, 1)
        path == From3(line)
    IN IF Contains(path, Arrow)
       THEN LET m == RenameSearch(path)
            IN IF ~m.found
               THEN [err |-> "RuntimeError"]
               ELSE [err |-> "none",
                     asset |-> AssetState(x, y, m.group2, m.group1)]
       ELSE IF Len(path) = 0
       THEN [err |-> "IndexError"]
       ELSE IF path[1] = Quote /\ path[Len(path)] = Quote
       THEN [err |-> "none", asset |-> AssetState(x, y, Slice1m2(path), None)]
       ELSE [err |-> "none", asset |-> AssetState(x, y, path, None)]

\* load: the entries appended until the output ends or a line raises
RECURSIVE loadLines(_, _)
loadLines(lines, acc) ==
    IF lines = <<>> THEN [status |-> acc, err |-> "none"]
    ELSE IF Len(Head(lines)) = 0 THEN loadLines(Tail(lines), acc)
    ELSE LET r == ParseLine(Head(lines))
         IN IF r.err # "none" THEN [status |-> acc, err |-> r.err]
            ELSE loadLines(Tail(lines), Append(acc, r.asset))

load(lines) == loadLines(lines, <<>>)

-----------------------------------------------------------------------------
(* AssetState.match and RepoStatus.match.  A call ends in a value or in an *)
(* exception: [raised, value].                                             *)

Returns(v) == [raised |-> "none", value |-> v]

Raises(e) == [raised |-> e, value |-> FALSE]

\* AssetFlags with '?' left out of the index codes that do not count as a
\* change: `not self.X in ' '`
AssetFlagsNoQuestionMark(asset) ==
    IF ~InChars(asset.X, <<" ">>) \/ InChars(asset.Y, <<"M", "D">>)
    THEN 1
    ELSE IF asset.X = "?" /\ asset.Y = "?"
    THEN 2
    ELSE 0

\* flags of AssetState.match: 1 modified, 2 untracked, 0 neither
AssetFlags(asset) ==
    IF ~InChars(asset.X, <<" ", "?">>) \/ InChars(asset.Y, <<"M", "D">>)
    THEN 1
    ELSE IF asset.X = "?" /\ asset.Y = "?"
    THEN 2
    ELSE 0

AssetState_match(asset, condition) ==
    LET flags == AssetFlags(asset)
    IN IF condition = "modified" THEN Returns(flags = 1)
       ELSE IF condition = "untracked" THEN Returns(flags = 2)
       ELSE IF condition = "dirty" THEN Returns(flags # 0)
       ELSE Raises("RuntimeError")

\* the loop of RepoStatus.match over the entries from index i on
RECURSIVE AnyAssetMatches(_, _, _)
AnyAssetMatches(st, i, condition) ==
    IF i > Len(st) THEN Returns(FALSE)
    ELSE LET r == AssetState_match(st[i], condition)
         IN IF r.raised # "none" THEN r
            ELSE IF r.value THEN Returns(TRUE)
            ELSE AnyAssetMatches(st, i + 1, condition)

RepoStatus_match(st, condition) ==
    IF condition = "all" THEN Returns(TRUE)
    ELSE IF condition = "clean" THEN Returns(st = <<>>)
    ELSE IF condition = "dirty" THEN Returns(st # <<>>)
    ELSE AnyAssetMatches(st, 1, condition)

-----------------------------------------------------------------------------
(* The inputs of the parser and of the classification.                     *)

SeqsUpTo(S, n) == UNION { [1..k -> S] : k \in 0..n }

RECURSIVE Flatten(_)
Flatten(ss) == IF ss = <<>> THEN <<>> ELSE Head(ss) \o Flatten(Tail(ss))

\* the status alphabet of git status --porcelain
Codes == {" ", "M", "A", "D", "R", "C", "U", "?", "!"}

Conditions == {"all", "clean", "dirty", "modified", "untracked"}

\* a condition value outside the enumeration
OtherConditions == {"staged"}

\* path fields built of a quote, a letter and the rename arrow
PathTokens == { <<Quote>>, <<"a">>, Arrow }

PathFields == { Flatten(ts) : ts \in SeqsUpTo(PathTokens, MaxTokens) }

\* status lines with a quoted, renamed or plain path; the empty line too
QuotedLines ==
    {<<>>} \cup { <<xy[1], xy[2], " ">> \o f :
                    xy \in {<<"M", " ">>, <<"R", " ">>}, f \in PathFields }

\* the lines around it: an empty one and an unquoted one
PlainLines == { <<>>, <<"M", " ", " ", "a">> }

QuotedOutputs ==
    { pre \o <<line>> \o post :
        pre \in SeqsUpTo(PlainLines, MaxPlainLines),
        line \in QuotedLines,
        post \in SeqsUpTo(PlainLines, MaxPlainLines) }

CodeLine(x, y) == <<x, y, " ", "a">>

SampleCodes == { <<"M", " ">>, <<" ", "M">>, <<"?", "?">>, <<" ", "A">>, <<"!", "!">> }

\* outputs of one line with every pair of codes, and longer ones of a few
CodeOutputs ==
    { <<CodeLine(x, y)>> : x \in Codes, y \in Codes }
    \cup SeqsUpTo({ CodeLine(xy[1], xy[2]) : xy \in SampleCodes }, MaxEntries)

-----------------------------------------------------------------------------
(* A RepoStatus object: construction, load, and the two match methods.     *)

NoCall == [fn |-> "none", condition |-> "", index |-> 0,
           raised |-> "none", value |-> FALSE]

\* RepoStatus.__init__
NewRepoStatus ==
    /\ loadErr # "unloaded"
    /\ stdout' = <<>>
    /\ status' = <<>>
    /\ loadErr' = "unloaded"
    /\ call' = NoCall
    /\ UNCHANGED mainVars
    /\ UNCHANGED walkVars

\* RepoStatus.load on a freshly constructed object, git printing `lines`
Load(lines) ==
    /\ loadErr = "unloaded"
    /\ LET r == load(lines)
       IN /\ stdout' = lines
          /\ status' = r.status
          /\ loadErr' = r.err
    /\ call' = NoCall
    /\ UNCHANGED mainVars
    /\ UNCHANGED walkVars

LoadQuoted == \E lines \in QuotedOutputs : Load(lines)

LoadCodes == \E lines \in CodeOutputs : Load(lines)

\* asset.match(condition) for an entry of the status
AssetMatch ==
    /\ \E i \in 1..Len(status), c \in {"modified", "untracked", "dirty"} \cup OtherConditions :
         LET r == AssetState_match(status[i], c)
         IN call' = [fn |-> "AssetState.match", condition |-> c, index |-> i,
                     raised |-> r.raised, value |-> r.value]
    /\ UNCHANGED <<stdout, status, loadErr>>
    /\ UNCHANGED mainVars
    /\ UNCHANGED walkVars

\* repo.match(condition)
RepoMatch ==
    /\ \E c \in Conditions \cup OtherConditions :
         LET r == RepoStatus_match(status, c)
         IN call' = [fn |-> "RepoStatus.match", condition |-> c, index |-> 0,
                     raised |-> r.raised, value |-> r.value]
    /\ UNCHANGED <<stdout, status, loadErr>>
    /\ UNCHANGED mainVars
    /\ UNCHANGED walkVars

-----------------------------------------------------------------------------
(* PathFilter.  A repository path is the number of the repository; a       *)
(* compiled pattern is the set of paths re.match accepts for it.           *)

\* the repositories RepoWalk yields, in the order it yields them
Repos == 1..NumRepos

\* the pattern files of the model, by name
FilePatterns(filename) ==
    IF filename = "black.txt" THEN << {1} >>
    ELSE IF filename = "gwalk.blacklist" THEN << {2} >>
    ELSE IF filename = "white.txt" THEN << {1} >>
    ELSE << >>

\* os.path.exists for the names a list option may carry
Exists(filename) == filename \in {"black.txt", "white.txt"}

\* PathFilter.__init__ and load: patterns stay None without a file name
PathFilter(filename) ==
    IF filename = ""
    THEN [filename |-> filename, isNone |-> TRUE, patterns |-> << >>]
    ELSE [filename |-> filename, isNone |-> FALSE, patterns |-> FilePatterns(filename)]

\* PathFilter.__bool__
PathFilter_bool(f) == ~f.isNone

\* PathFilter.match
PathFilter_match(f, path) == \E i \in 1..Len(f.patterns) : path \in f.patterns[i]

-----------------------------------------------------------------------------
(* main: the resolution of --blacklist, --whitelist and --force.           *)

\* lines 450-463 of main, for the parsed options g
ResolveLists(g) ==
    IF g.blacklist # "" /\ ~Exists(g.blacklist) THEN [err |-> "Invalid blacklist"]
    ELSE IF g.whitelist # "" /\ ~Exists(g.whitelist) THEN [err |-> "Invalid whitelist"]
    ELSE LET b1 == IF g.localBlacklist THEN "gwalk.blacklist" ELSE g.blacklist
             force == IF g.whitelist # "" THEN TRUE ELSE g.force
             b2 == IF force THEN "" ELSE b1
         IN [err |-> "none",
             force |-> force,
             whitelist |-> PathFilter(g.whitelist),
             blacklist |-> PathFilter(b2)]

\* the nested function filter(list, name) of main's loop
filter(list, path) == PathFilter_bool(list) /\ PathFilter_match(list, path)

\* which list makes main skip the path, the blacklist being asked first
IgnoredByList(a, path) ==
    IF filter(a.blacklist, path) THEN "blacklist"
    ELSE IF filter(a.whitelist, path) THEN "whitelist"
    ELSE "none"

-----------------------------------------------------------------------------
(* RepoStatus.display and RepoHandler.perform.                             *)

\* the directory main is started in
StartDir == 0

\* ' '.join(params)
RECURSIVE Join(_)
Join(params) ==
    IF params = <<>> THEN <<>>
    ELSE IF Len(params) = 1 THEN params[1]
    ELSE params[1] \o <<" ">> \o Join(Tail(params))

\* str.replace(old, new), old not empty
RECURSIVE Replace(_, _, _)
Replace(s, old, new) ==
    IF Len(s) < Len(old) THEN s
    ELSE IF SubSeq(s, 1, Len(old)) = old
    THEN new \o Replace(SubSeq(s, Len(old) + 1, Len(s)), old, new)
    ELSE <<Head(s)>> \o Replace(Tail(s), old, new)

PlaceholderAb == <<"{", "a", "b", "}">>

PlaceholderActiveBranch ==
    <<"{", "A", "c", "t", "i", "v", "e", "B", "r", "a", "n", "c", "h", "}">>

PlaceholderRepositoryName ==
    <<"{", "R", "e", "p", "o", "s", "i", "t", "o", "r", "y", "N", "a", "m", "e", "}">>

\* whether building the command reads repo.repo.active_branch
ReadsActiveBranch(cmd) ==
    Contains(cmd, PlaceholderAb) \/ Contains(cmd, PlaceholderActiveBranch)

\* lines 349-355 of perform, for a repository with an active branch
Substitute(cmd, branch, name) ==
    LET c1 == IF Contains(cmd, PlaceholderAb)
              THEN Replace(cmd, PlaceholderAb, branch) ELSE cmd
        c2 == IF Contains(c1, PlaceholderActiveBranch)
              THEN Replace(c1, PlaceholderActiveBranch, branch) ELSE c1
    IN IF Contains(c2, PlaceholderRepositoryName)
       THEN Replace(c2, PlaceholderRepositoryName, name) ELSE c2

\* code >>= 8
ShiftRight8(code) == code \div 256

\* os.chdir(working_dir) in state r of a try block: it raises when the
\* directory cannot be entered; an interrupt may arrive right after it
Chdir(r, dir, e) ==
    IF e.chdirFails THEN [r EXCEPT !.raised = "OSError"]
    ELSE IF e.interrupt THEN [r EXCEPT !.cwd = dir, !.inside = dir,
                                       !.raised = "KeyboardInterrupt"]
    ELSE [r EXCEPT !.cwd = dir, !.inside = dir]

\* display: what it leaves of the working directory, and what it raises
display(repo, level, e, dir) ==
    IF level \in {"none", "brief"}
    THEN [cwd |-> dir, raised |-> "none", inside |-> dir]
    ELSE LET lastcwd == dir
             body == Chdir([cwd |-> dir, raised |-> "none", inside |-> dir],
                           repo.path, e)
         IN [body EXCEPT !.cwd = lastcwd]

\* the try block of perform (lines 336-365): the handler's lists, the
\* working directory and the exception, if any, at its end
PerformBody(h, repo, a, e, lastcwd) ==
    LET base == [success |-> h.success, failure |-> h.failure, cwd |-> lastcwd,
                 inside |-> lastcwd, raised |-> "none", ran |-> FALSE,
                 code |-> -1, cmd |-> None]
    IN IF a.action \in {"bash", "gui"}
       THEN LET r == Chdir(base, repo.path, e)
            IN IF r.raised # "none" THEN r ELSE [r EXCEPT !.ran = TRUE]
       ELSE IF a.action = "run"
       THEN LET joined == Join(a.params)
            IN IF ReadsActiveBranch(joined) /\ repo.detached
               THEN [base EXCEPT !.raised = "TypeError"]
               ELSE LET cmd == Substitute(joined, repo.branch, repo.name)
                        r == Chdir([base EXCEPT !.cmd = cmd], repo.path, e)
                        code == IF e.platform # "windows"
                                THEN ShiftRight8(e.wait) ELSE e.wait
                    IN IF r.raised # "none" THEN r
                       ELSE IF code = 0
                       THEN [r EXCEPT !.ran = TRUE, !.code = code,
                                      !.success = Append(@, repo.path)]
                       ELSE [r EXCEPT !.ran = TRUE, !.code = code,
                                      !.failure = Append(@, repo.path)]
       ELSE base

\* perform without its finally clause
performNoFinally(h, repo, a, e, lastcwd) == PerformBody(h, repo, a, e, lastcwd)

\* perform: the try block, then `finally: os.chdir(lastcwd)`; `except
\* Exception` has printed the trace of what the block raised
perform(h, repo, a, e, lastcwd) ==
    [PerformBody(h, repo, a, e, lastcwd) EXCEPT !.cwd = lastcwd]

\* what `except Exception` does not catch leaves perform
Propagates(raised) == raised = "KeyboardInterrupt"

-----------------------------------------------------------------------------
(* RepoWalk.  A path is the sequence of names from the base directory; the *)
(* tree fs is the set of entries [path, kind] below the base, each in a    *)
(* directory that exists.                                                  *)

\* the entry names of the model, in the order a listing reports them
NameOrder == <<".git", ".vs", ".vscode", "a">>

\* the names the non-recursive walk skips (line 118)
SkippedNames == {".git", ".vs", ".vscode"}

IsDir(tree, p) == p = <<>> \/ [path |-> p, kind |-> "dir"] \in tree

IsFile(tree, p) == [path |-> p, kind |-> "file"] \in tree

SeqHas(seq, x) == \E i \in 1..Len(seq) : seq[i] = x

\* the triple (root, dirs, files) os.walk reports for a directory
Listing(tree, top) ==
    [root |-> top,
     dirs |-> SelectSeq(NameOrder, LAMBDA n : IsDir(tree, Append(top, n))),
     files |-> SelectSeq(NameOrder, LAMBDA n : IsFile(tree, Append(top, n)))]

\* os.walk(top): top down, the directory itself first, then the walk of
\* each of its subdirectories; nothing for what is not a directory
RECURSIVE OsWalk(_, _)
RECURSIVE OsWalkInto(_, _, _)
OsWalk(tree, top) ==
    IF ~IsDir(tree, top) THEN <<>>
    ELSE <<Listing(tree, top)>> \o OsWalkInto(tree, top, Listing(tree, top).dirs)

OsWalkInto(tree, top, dirs) ==
    IF dirs = <<>> THEN <<>>
    ELSE OsWalk(tree, Append(top, Head(dirs))) \o OsWalkInto(tree, top, Tail(dirs))

\* RepoWalk.repoType: 0 None, 1 Normal, 2 Submodule
repoType(dirs, files) ==
    IF SeqHas(dirs, ".git") THEN 1
    ELSE IF SeqHas(files, ".git") THEN 2
    ELSE 0

\* RepoWalk.isRepo: repoType of the first triple os.walk reports
isRepo(tree, directory) ==
    LET w == OsWalk(tree, directory)
    IN IF w = <<>> THEN FALSE
       ELSE repoType(Head(w).dirs, Head(w).files) # 0

\* what an iteration has yielded and which directories it has tested
Yielding(paths, tested) == [yielded |-> paths, tested |-> tested]

\* the subdirectories of a triple the non-recursive loop tests (117-122)
RECURSIVE SubdirYields(_, _, _)
SubdirYields(tree, root, dirs) ==
    IF dirs = <<>> THEN Yielding(<<>>, {})
    ELSE LET rest == SubdirYields(tree, root, Tail(dirs))
             path == Append(root, Head(dirs))
         IN IF Head(dirs) \in SkippedNames THEN rest
            ELSE Yielding((IF isRepo(tree, path) THEN <<path>> ELSE <<>>)
                            \o rest.yielded,
                          {path} \cup rest.tested)

\* the body of the non-recursive loop for one triple (lines 115-122)
FlatBody(tree, t) ==
    LET sub == SubdirYields(tree, t.root, t.dirs)
    IN Yielding((IF isRepo(tree, t.root) THEN <<t.root>> ELSE <<>>) \o sub.yielded,
                {t.root} \cup sub.tested)

\* the body of the recursive loop for the triples w (lines 110-112)
RECURSIVE DeepYields(_)
DeepYields(w) ==
    IF w = <<>> THEN Yielding(<<>>, {})
    ELSE LET rest == DeepYields(Tail(w))
             t == Head(w)
         IN Yielding((IF repoType(t.dirs, t.files) # 0 THEN <<t.root>> ELSE <<>>)
                        \o rest.yielded,
                     {t.root} \cup rest.tested)

\* the non-recursive loop run for every triple of the walk
RECURSIVE FlatBodies(_, _)
FlatBodies(tree, w) ==
    IF w = <<>> THEN Yielding(<<>>, {})
    ELSE LET first == FlatBody(tree, Head(w))
             rest == FlatBodies(tree, Tail(w))
         IN Yielding(first.yielded \o rest.yielded, first.tested \cup rest.tested)

\* RepoWalk.__iter__ with the `break` of line 123 left out
RepoWalk_iterNoBreak(tree, directory, recursive) ==
    LET w == OsWalk(tree, directory)
    IN IF recursive THEN DeepYields(w) ELSE FlatBodies(tree, w)

\* RepoWalk.__iter__, run to its end
RepoWalk_iter(tree, directory, recursive) ==
    LET w == OsWalk(tree, directory)
    IN IF recursive THEN DeepYields(w)
       ELSE IF w = <<>> THEN Yielding(<<>>, {})
       ELSE FlatBody(tree, Head(w))

\* the host creates a file or a directory in a directory of the tree
CreateEntry ==
    /\ ~walk.done
    /\ Cardinality(fs) < MaxNodes
    /\ \E parent \in {<<>>} \cup { n.path : n \in { m \in fs : m.kind = "dir" } },
          k \in 1..Len(NameOrder), kind \in {"dir", "file"} :
         LET p == Append(parent, NameOrder[k])
         IN /\ ~IsDir(fs, p)
            /\ ~IsFile(fs, p)
            /\ fs' = fs \cup {[path |-> p, kind |-> kind]}
    /\ UNCHANGED walk
    /\ UNCHANGED parseVars
    /\ UNCHANGED mainVars

\* for path in RepoWalk(base, recursive): the whole iteration
RepoWalkIterate ==
    /\ ~walk.done
    /\ \E recursive \in BOOLEAN :
         LET r == RepoWalk_iter(fs, <<>>, recursive)
         IN walk' = [done |-> TRUE, recursive |-> recursive,
                     yielded |-> r.yielded, tested |-> r.tested]
    /\ UNCHANGED fs
    /\ UNCHANGED parseVars
    /\ UNCHANGED mainVars

-----------------------------------------------------------------------------
(* main, before argument parsing; no RepoStatus exists yet.                *)

NoArgs == [set |-> FALSE]

NoLast == [path |-> 0]

\* no RepoWalk has been iterated yet
NoWalk == [done |-> FALSE, recursive |-> FALSE, yielded |-> <<>>, tested |-> {}]

Init ==
    /\ stdout = <<>>
    /\ status = <<>>
    /\ loadErr = "unloaded"
    /\ call = NoCall
    /\ pc = "start"
    /\ given = NoArgs
    /\ args = NoArgs
    /\ walkPos = 0
    /\ ignored = 0
    /\ matched = 0
    /\ success = <<>>
    /\ failure = <<>>
    /\ cwd = StartDir
    /\ displayed = {}
    /\ performed = {}
    /\ last = NoLast
    /\ fs = {}
    /\ walk = NoWalk

-----------------------------------------------------------------------------
(* main.                                                                   *)

\* the words after `--action run` that the model tries
ParamsChoices ==
    { << <<"l", "s">> >>,
      << <<"e", "c", "h", "o">>, PlaceholderAb >>,
      << <<"e", "c", "h", "o">>, <<"{", "A", "B", "}">>, PlaceholderRepositoryName >> }

\* the action, its words and the host platform
ActionChoices ==
    { [action |-> a, params |-> <<>>, platform |-> "linux"] :
        a \in {"None", "bash", "gui"} }
    \cup { [action |-> "run", params |-> ps, platform |-> "linux"] :
        ps \in ParamsChoices }
    \cup { [action |-> "run", params |-> << <<"l", "s">> >>, platform |-> "windows"] }

Levels == {"none", "brief", "normal", "verbose"}

\* what os.system returns: a wait status (exit code in the high byte, the
\* signal in the low byte), on Windows the exit code itself
WaitStatuses == {0, 256, 65280, 9}

\* the outputs of git status the driver's repositories show
DriverOutputs ==
    { <<>>,
      << CodeLine("M", " ") >>,
      << CodeLine("?", "?") >>,
      << CodeLine(" ", "A") >> }

\* what the host does during one iteration of main's loop: the command
\* ends with some wait status, on a branch or with a detached HEAD, or the
\* repository cannot be entered, or the user interrupts
Environments ==
    [out : DriverOutputs, detached : BOOLEAN, chdirFails : {FALSE},
     interrupt : {FALSE}, wait : WaitStatuses]
    \cup [out : DriverOutputs, detached : {FALSE}, chdirFails : {TRUE},
          interrupt : {FALSE}, wait : {0}]
    \cup [out : DriverOutputs, detached : {FALSE}, chdirFails : {FALSE},
          interrupt : {TRUE}, wait : {0}]

\* lines 422-470: the options parsed, the lists resolved
ParseArgs ==
    /\ pc = "start"
    /\ \E bl \in {"", "black.txt", "missing.txt"},
          wl \in {"", "white.txt", "missing.txt"},
          force \in BOOLEAN, localBlacklist \in BOOLEAN,
          f \in Conditions, level \in Levels, ac \in ActionChoices :
         LET g == [set |-> TRUE, blacklist |-> bl, whitelist |-> wl,
                   force |-> force, localBlacklist |-> localBlacklist,
                   filter |-> f, level |-> level, action |-> ac.action,
                   params |-> ac.params, platform |-> ac.platform]
             r == ResolveLists(g)
         IN /\ given' = g
            /\ IF r.err # "none"
               THEN /\ pc' = "crashed"
                    /\ args' = [set |-> FALSE]
               ELSE /\ pc' = "walk"
                    /\ args' = [set |-> TRUE, blacklist |-> r.blacklist,
                                whitelist |-> r.whitelist, force |-> r.force,
                                filter |-> f, level |-> level,
                                action |-> ac.action, params |-> ac.params]
    /\ UNCHANGED <<walkPos, ignored, matched, success, failure, cwd,
                   displayed, performed, last>>
    /\ UNCHANGED parseVars
    /\ UNCHANGED walkVars

\* what one iteration leaves when the path is skipped
Skipped(path, why) ==
    [path |-> path, ignoredBy |-> why, displayed |-> FALSE,
     performed |-> FALSE, raised |-> "none", ran |-> FALSE, code |-> -1,
     cmd |-> None, wait |-> 0, cwdBefore |-> cwd, inside |-> cwd]

\* lines 471-493: one iteration of main's loop, for the next path of the walk
Iterate ==
    /\ pc = "walk"
    /\ walkPos < NumRepos
    /\ \E e0 \in Environments :
         LET path == walkPos + 1
             e == [out |-> e0.out, detached |-> e0.detached,
                   chdirFails |-> e0.chdirFails, interrupt |-> e0.interrupt,
                   wait |-> e0.wait, platform |-> given.platform]
             repo == [path |-> path, detached |-> e.detached,
                      branch |-> <<"m", "a", "i", "n">>, name |-> <<"r">>]
             byList == IgnoredByList(args, path)
             loads == ~(args.filter = "all" /\ args.level = "none")
             ld == IF loads THEN load(e.out) ELSE [status |-> <<>>, err |-> "none"]
             m == RepoStatus_match(ld.status, args.filter)
             d == display(repo, args.level, e, cwd)
             p == perform([success |-> success, failure |-> failure],
                          repo, args, e, d.cwd)
         IN /\ walkPos' = path
            /\ IF byList # "none"
               THEN /\ ignored' = ignored + 1
                    /\ last' = Skipped(path, byList)
                    /\ UNCHANGED <<pc, matched, success, failure, cwd,
                                   displayed, performed, parseVars>>
               ELSE /\ stdout' = IF loads THEN e.out ELSE <<>>
                    /\ status' = ld.status
                    /\ loadErr' = IF loads THEN ld.err ELSE "unloaded"
                    /\ call' = NoCall
                    /\ IF ld.err # "none"
                       THEN /\ pc' = "crashed"
                            /\ last' = [Skipped(path, "none") EXCEPT !.raised = ld.err]
                            /\ UNCHANGED <<ignored, matched, success, failure,
                                           cwd, displayed, performed>>
                       ELSE IF ~m.value
                       THEN /\ ignored' = ignored + 1
                            /\ last' = Skipped(path, "filter")
                            /\ UNCHANGED <<pc, matched, success, failure, cwd,
                                           displayed, performed>>
                       ELSE IF d.raised # "none"
                       THEN /\ matched' = matched + 1
                            /\ displayed' = displayed \cup {path}
                            /\ cwd' = d.cwd
                            /\ pc' = IF d.raised = "KeyboardInterrupt"
                                     THEN "interrupted" ELSE "crashed"
                            /\ last' = [Skipped(path, "none") EXCEPT
                                          !.displayed = TRUE, !.raised = d.raised,
                                          !.inside = d.inside]
                            /\ UNCHANGED <<ignored, success, failure, performed>>
                       ELSE /\ matched' = matched + 1
                            /\ displayed' = displayed \cup {path}
                            /\ performed' = performed \cup {path}
                            /\ success' = p.success
                            /\ failure' = p.failure
                            /\ cwd' = p.cwd
                            /\ pc' = IF Propagates(p.raised) THEN "interrupted" ELSE pc
                            /\ last' = [path |-> path, ignoredBy |-> "none",
                                        displayed |-> TRUE, performed |-> TRUE,
                                        raised |-> p.raised, ran |-> p.ran,
                                        code |-> p.code, cmd |-> p.cmd,
                                        wait |-> e.wait, cwdBefore |-> d.cwd,
                                        inside |-> p.inside]
                            /\ UNCHANGED ignored
    /\ UNCHANGED <<given, args>>
    /\ UNCHANGED walkVars

\* lines 495-496: the walk is over, main prints its counters
Finish ==
    /\ pc = "walk"
    /\ walkPos = NumRepos
    /\ pc' = "done"
    /\ UNCHANGED <<given, args, walkPos, ignored, matched, success, failure,
                   cwd, displayed, performed, last>>
    /\ UNCHANGED parseVars
    /\ UNCHANGED walkVars

Next == ParseArgs \/ Iterate \/ Finish

Spec == Init /\ [][Next]_vars

NextWalk == CreateEntry \/ RepoWalkIterate

SpecWalk == Init /\ [][NextWalk]_vars

NextLoad == NewRepoStatus \/ LoadQuoted

SpecLoad == Init /\ [][NextLoad]_vars

NextMatch == NewRepoStatus \/ LoadCodes \/ AssetMatch \/ RepoMatch

SpecMatch == Init /\ [][NextMatch]_vars

-----------------------------------------------------------------------------
(* Classification (SpecMatch).                                             *)

\* C3: for every pair of status codes, AssetState.match('modified') is true
\* iff X is not ' ' or '?' or Y is 'M' or 'D', match('untracked') is true
\* iff X = Y = '?', and no entry is both modified and untracked.
C3_AssetClassification ==
    /\ call.fn = "AssetState.match" =>
         LET a == status[call.index]
         IN /\ call.condition = "modified" =>
                 /\ call.raised = "none"
                 /\ call.value = (a.X \notin {" ", "?"} \/ a.Y \in {"M", "D"})
            /\ call.condition = "untracked" =>
                 /\ call.raised = "none"
                 /\ call.value = (a.X = "?" /\ a.Y = "?")
    /\ \A i \in 1..Len(status) :
         ~ /\ AssetState_match(status[i], "modified").value
           /\ AssetState_match(status[i], "untracked").value

\* an untracked entry was asked for 'untracked' and matched
C3_Witness ==
    /\ call.fn = "AssetState.match"
    /\ call.condition = "untracked"
    /\ call.value
    /\ status[call.index].X = "?"
    /\ status[call.index].Y = "?"

HasModifiedOrUntracked(st) == \E i \in 1..Len(st) : AssetFlags(st[i]) # 0

\* C4: RepoStatus.match('dirty') is true iff the status has a modified or an
\* untracked entry, that is iff match('modified') or match('untracked') is;
\* match('clean') is true iff neither is.
C4_DirtyIffModifiedOrUntracked ==
    call.fn = "RepoStatus.match" =>
        LET either == \/ RepoStatus_match(status, "modified").value
                      \/ RepoStatus_match(status, "untracked").value
        IN /\ call.condition = "dirty" =>
                /\ call.value = HasModifiedOrUntracked(status)
                /\ call.value = either
           /\ call.condition = "clean" => call.value = ~either

\* C5: RepoStatus.match with a condition outside the enumeration raises,
\* whatever the status, the empty one included, and returns no boolean.
C5_InvalidConditionRaises ==
    (call.fn = "RepoStatus.match" /\ call.condition \notin Conditions)
        => call.raised = "RuntimeError"

-----------------------------------------------------------------------------
(* Parsing (SpecLoad).                                                     *)

NonBlank(lines) == SelectSeq(lines, LAMBDA l : l # <<>>)

StartsWithQuote(f) == Len(f) >= 1 /\ f[1] = Quote

EndsWithQuote(f) == Len(f) >= 1 /\ f[Len(f)] = Quote

\* C6: a path field that starts and ends with a double quote and holds no
\* arrow is stored without its first and its last character, the characters
\* between them all kept.
C6_WrappingQuotesRemoved ==
    loadErr = "none" =>
        \A k \in 1..Len(status) :
            LET f == From3(NonBlank(stdout)[k])
            IN (/\ Len(f) >= 2
                /\ StartsWithQuote(f)
                /\ EndsWithQuote(f)
                /\ ~Contains(f, Arrow))
               => status[k].PATH = SubSeq(f, 2, Len(f) - 1)

\* an operand with an opening quote and no closing one, or the reverse
Unbalanced(o) ==
    /\ Len(o) >= 1
    /\ \/ StartsWithQuote(o) # EndsWithQuote(o)
       \/ o = <<Quote>>

\* the places where the field has the arrow
ArrowAt(f) == { i \in 1..Len(f) : SubSeq(f, i, i + 3) = Arrow }

Malformed(f) ==
    IF Contains(f, Arrow)
    THEN \A i \in ArrowAt(f) :
            \/ Unbalanced(SubSeq(f, 1, i - 1))
            \/ Unbalanced(SubSeq(f, i + 4, Len(f)))
    ELSE StartsWithQuote(f) /\ (Len(f) = 1 \/ ~EndsWithQuote(f))

\* C7: load raises, and appends no entry for the line, when the line's path
\* field starts with a quote that is not closed, or has the arrow with an
\* operand quoted on one side only.
C7_MalformedQuotingRaises ==
    loadErr # "unloaded" =>
        \A k \in 1..Len(NonBlank(stdout)) :
            Malformed(From3(NonBlank(stdout)[k]))
                => (loadErr # "none" /\ Len(status) < k)

-----------------------------------------------------------------------------
(* The driver (Spec).                                                      *)

InSeq(x, seq) == \E i \in 1..Len(seq) : seq[i] = x

\* a path has been through an iteration of main's loop
Walked == args.set /\ last.path # 0

\* C1: with a whitelist active, a path the whitelist matches is not ignored
\* on account of the whitelist, and a path it does not match is counted as
\* ignored and is neither displayed nor acted upon.
C1_WhitelistKeepsMatched ==
    (Walked /\ PathFilter_bool(args.whitelist)) =>
        IF PathFilter_match(args.whitelist, last.path)
        THEN last.ignoredBy # "whitelist"
        ELSE /\ last.ignoredBy # "none"
             /\ ignored >= 1
             /\ last.path \notin displayed
             /\ last.path \notin performed

\* C2: with an explicit, existing --blacklist and neither --force nor
\* --whitelist, the blacklist applied during the walk is the one built from
\* the explicit file, whether or not a gwalk.blacklist exists.
C2_ExplicitBlacklistWins ==
    (/\ args.set
     /\ given.blacklist # ""
     /\ Exists(given.blacklist)
     /\ ~given.force
     /\ given.whitelist = "")
    => /\ PathFilter_bool(args.blacklist)
       /\ args.blacklist = PathFilter(given.blacklist)

\* C8: an exception raised while perform executes a repository's action is
\* caught, the repository is added to the handler's failure list, and the
\* driver goes on with the walk.
C8_ExceptionIsFailure ==
    (/\ Walked
     /\ last.performed
     /\ last.raised \notin {"none", "KeyboardInterrupt"})
    => /\ InSeq(last.path, failure)
       /\ pc \in {"walk", "done"}

\* C9: the working directory after perform returns is the one perform was
\* called in, for every action and every outcome; so after any number of
\* repositories the driver is in the directory it started in.
C9_WorkingDirectoryRestored ==
    /\ cwd = StartDir
    /\ (Walked /\ last.performed) => cwd = last.cwdBefore

\* perform entered the repository, was interrupted there, and the walk had
\* already gone through an earlier repository
C9_Witness ==
    /\ Walked
    /\ last.performed
    /\ last.path > 1
    /\ last.inside = last.path
    /\ last.raised = "KeyboardInterrupt"
    /\ cwd = StartDir

\* C10: for action run off Windows, the repository goes to exactly one of
\* the success and failure lists, to success iff the wait status the
\* command returned is 0.
C10_SuccessIffStatusZero ==
    (/\ Walked
     /\ args.action = "run"
     /\ given.platform # "windows"
     /\ last.performed
     /\ last.ran)
    => /\ InSeq(last.path, success) # InSeq(last.path, failure)
       /\ InSeq(last.path, success) <=> (last.wait = 0)

-----------------------------------------------------------------------------
(* The command of action run (Spec).                                       *)

UpperCase == <<"A", "B", "C", "D", "E", "F", "G", "H", "I", "J", "K", "L", "M",
               "N", "O", "P", "Q", "R", "S", "T", "U", "V", "W", "X", "Y", "Z">>

LowerCase == <<"a", "b", "c", "d", "e", "f", "g", "h", "i", "j", "k", "l", "m",
               "n", "o", "p", "q", "r", "s", "t", "u", "v", "w", "x", "y", "z">>

\* a text with its upper-case letters made lower-case
Fold(s) ==
    [i \in 1..Len(s) |->
        IF \E k \in 1..Len(UpperCase) : UpperCase[k] = s[i]
        THEN LowerCase[CHOOSE k \in 1..Len(UpperCase) : UpperCase[k] = s[i]]
        ELSE s[i]]

\* the text holds the placeholder in some spelling of upper and lower case
HoldsInAnyCase(s, placeholder) == Contains(Fold(s), Fold(placeholder))

\* C11: the command action run executes holds no {ab}, {ActiveBranch} or
\* {RepositoryName} placeholder in any spelling of upper and lower case:
\* each was replaced by the branch name or the directory name.
C11_NoPlaceholderInAnyCase ==
    (/\ Walked
     /\ args.action = "run"
     /\ last.performed
     /\ last.ran)
    => \A ph \in {PlaceholderAb, PlaceholderActiveBranch, PlaceholderRepositoryName} :
           ~HoldsInAnyCase(last.cmd, ph)

-----------------------------------------------------------------------------
(* RepoWalk (SpecWalk).                                                    *)

Elements(seq) == { seq[i] : i \in 1..Len(seq) }

\* the directory directly holds a '.git' directory or a '.git' file
HasMarker(tree, p) ==
    IsDir(tree, Append(p, ".git")) \/ IsFile(tree, Append(p, ".git"))

\* the base directory and its immediate subdirectories, the skipped names
\* left out
BaseAndChildren(tree) ==
    {<<>>} \cup { <<NameOrder[k]>> : k \in { j \in 1..Len(NameOrder) :
                                              /\ NameOrder[j] \notin SkippedNames
                                              /\ IsDir(tree, <<NameOrder[j]>>) } }

\* C12: a non-recursive walk yields exactly the base directory, if it holds
\* the marker, and the immediate subdirectories other than '.git', '.vs',
\* '.vscode' that hold it; never a directory without the marker, never one
\* two or more levels below the base.
C12_FlatWalkYields ==
    (walk.done /\ ~walk.recursive) =>
        /\ Elements(walk.yielded) = { p \in BaseAndChildren(fs) : HasMarker(fs, p) }
        /\ \A p \in Elements(walk.yielded) : Len(p) <= 1 /\ HasMarker(fs, p)

\* a repository with a repository nested in it: the walk yielded the outer
\* one and not the inner one
C12_Witness ==
    /\ walk.done
    /\ ~walk.recursive
    /\ IsDir(fs, <<"a", "a">>)
    /\ HasMarker(fs, <<"a", "a">>)
    /\ <<"a">> \in Elements(walk.yielded)
    /\ <<"a", "a">> \notin Elements(walk.yielded)

\* C13: a recursive walk neither visits, tests nor yields a directory at or
\* below a '.git' directory, and yields every directory outside of one that
\* holds the marker.
C13_MarkerDirectoryNotEntered ==
    (walk.done /\ walk.recursive) =>
        /\ \A p \in walk.tested \cup Elements(walk.yielded) : ~SeqHas(p, ".git")
        /\ \A n \in fs :
             (n.kind = "dir" /\ ~SeqHas(n.path, ".git") /\ HasMarker(fs, n.path))
                 => n.path \in Elements(walk.yielded)

====
